---------------------------- MODULE Spec2Model ----------------------------
(***************************************************************************)
(* A model of src/LolSkinsTracker.tsx: the champion store kept in React    *)
(* state, its persistence to localStorage, the JSON import, and the Data   *)
(* Dragon prefill (fetch, then mergeSkins).                                *)
(*                                                                         *)
(* Representation.  A JS string is a sequence of characters, each          *)
(* character a token ("V", "eacute", "COMBACUTE", ...).  A JS object is a  *)
(* function from its property names to values; a property that is missing  *)
(* or undefined is not in the function's domain (both read as undefined,   *)
(* and JSON.stringify writes neither).  A JSON text is a tagged record:    *)
(* an array text holds one member list (<<key, value>> in insertion order) *)
(* per object.                                                             *)
(***************************************************************************)
EXTENDS Integers, Sequences, FiniteSets, TLC

\* ------------------------------------------------------------- bounds

\* Ids uid() may hand out in one behaviour.
MaxUid == 2
\* Per-row prefill fetches that may be in flight together.
MaxSingle == 1
\* User gestures (a click, a typed name, a picked file) in one behaviour.
MaxGestures == 3

\* ------------------------------------------------------------- strings

Upper == {"V", "K", "A", "B", "E", "X", "Eacute"}

\* String.prototype.toLowerCase, one character.
toLowerCase(ch) ==
  CASE ch = "V" -> "v"
    [] ch = "K" -> "k"
    [] ch = "A" -> "a"
    [] ch = "B" -> "b"
    [] ch = "E" -> "e"
    [] ch = "X" -> "x"
    [] ch = "Eacute" -> "eacute"
    [] OTHER -> ch

\* String.prototype.normalize("NFD"), one character: a precomposed accented
\* letter becomes its base letter followed by the combining mark.
NFD(ch) ==
  CASE ch = "eacute" -> <<"e", "COMBACUTE">>
    [] ch = "Eacute" -> <<"E", "COMBACUTE">>
    [] OTHER -> <<ch>>

\* The Canonical_Combining_Class of a character: 0 for a starter, 230 for
\* the combining acute accent (U+0301) and the combining Latin small letter
\* a (U+0363), 220 for the combining asterisk below (U+0359).
ccc(ch) ==
  CASE ch = "COMBACUTE" -> 230
    [] ch = "COMBLETTERA" -> 230
    [] ch = "COMBASTBELOW" -> 220
    [] OTHER -> 0

\* s with its i-th and (i+1)-th characters exchanged.
Swap(s, i) == [s EXCEPT ![i] = s[i + 1], ![i + 1] = s[i]]

\* A mark stands right after a mark of a higher class.
Misordered(s, i) == ccc(s[i + 1]) # 0 /\ ccc(s[i]) > ccc(s[i + 1])

RECURSIVE CanonicalOrder(_)
\* The canonical ordering of normalize("NFD"): within a run of marks, the
\* marks are sorted by class, marks of one class keeping their order.
CanonicalOrder(s) ==
  IF \E i \in 1 .. Len(s) - 1 : Misordered(s, i)
    THEN CanonicalOrder(Swap(s, CHOOSE i \in 1 .. Len(s) - 1 : Misordered(s, i)))
    ELSE s

\* \p{Diacritic}: the combining acute accent (U+0301) and, among the ASCII
\* characters, the grave accent (U+0060, the backtick).  The marks U+0363
\* and U+0359 do not have the property.
Diacritic == {"COMBACUTE", "BACKTICK"}

\* \s of a JS regular expression (and what trim() strips).
WhiteSpace == {" ", "NBSP"}

\* The class of the last replace: apostrophe, backtick, period, hyphen, \s.
Punctuation == {"'", "BACKTICK", ".", "-"} \cup WhiteSpace

RECURSIVE FlatMap(_, _)
FlatMap(F(_), s) ==
  IF s = <<>> THEN <<>> ELSE F(Head(s)) \o FlatMap(F, Tail(s))

Keep(s, Test(_)) == SelectSeq(s, Test)

LowerChar(ch) == <<toLowerCase(ch)>>

normalize(s) ==
  LET lower == FlatMap(LowerChar, s)
      nfd == CanonicalOrder(FlatMap(NFD, lower))
      noDia == Keep(nfd, LAMBDA ch : ch \notin Diacritic)
  IN  Keep(noDia, LAMBDA ch : ch \notin Punctuation)

RECURSIVE TrimStart(_)
TrimStart(s) ==
  IF s # <<>> /\ Head(s) \in WhiteSpace THEN TrimStart(Tail(s)) ELSE s

RECURSIVE TrimEnd(_)
TrimEnd(s) ==
  IF s # <<>> /\ s[Len(s)] \in WhiteSpace
    THEN TrimEnd(SubSeq(s, 1, Len(s) - 1))
    ELSE s

\* String.prototype.trim
trim(s) == TrimEnd(TrimStart(s))

\* String.prototype.includes
includes(s, sub) ==
  \E i \in 0 .. (Len(s) - Len(sub)) : SubSeq(s, i + 1, i + Len(sub)) = sub

nameToId(name) == <<"champ_">> \o normalize(name)

UidTokens == <<"1", "2", "3", "4", "5", "6", "7", "8", "9">>

\* The n-th id uid() returns.  crypto.randomUUID() is taken to return an id
\* that no object holds yet: the n-th call returns "uid" followed by n.
uid(n) == <<"uid", UidTokens[n]>>


\* ------------------------------------------------------------- constants

\* The canonical list, cut to two of its names in their order in the list:
\* "Vel'Koz" and "Vi".
CHAMPION_NAMES == << <<"V", "e", "l", "'", "K", "o", "z">>, <<"V", "i">> >>

IsCanonical(name) == \E i \in 1 .. Len(CHAMPION_NAMES) : CHAMPION_NAMES[i] = name

\* ------------------------------------------------------------- JS values

\* o.f is neither missing nor undefined.
Has(o, f) == f \in DOMAIN o

\* s.id || fallback: a missing, undefined or empty id is falsy.
IdOr(o, fallback) == IF Has(o, "id") /\ o.id # <<>> THEN o.id ELSE fallback

\* !!s.checked
Checked(o) == Has(o, "checked") /\ o.checked

\* Array.isArray(c.skins): in the documents modelled, skins is an array or
\* is missing.
HasSkinsArray(o) == Has(o, "skins")

\* ------------------------------------------------------------- JSON

\* JSON.stringify of one skin: its defined properties, in the order id,
\* name, checked.
StringifySkin(s) ==
  (IF Has(s, "id") THEN << [k |-> "id", s |-> s.id] >> ELSE <<>>)
  \o (IF Has(s, "name") THEN << [k |-> "name", s |-> s.name] >> ELSE <<>>)
  \o (IF Has(s, "checked") THEN << [k |-> "checked", b |-> s.checked] >> ELSE <<>>)

StringifyChampion(c) ==
  (IF Has(c, "id") THEN << [k |-> "id", s |-> c.id] >> ELSE <<>>)
  \o (IF Has(c, "name") THEN << [k |-> "name", s |-> c.name] >> ELSE <<>>)
  \o (IF Has(c, "skins")
        THEN << [k |-> "skins",
                 a |-> [i \in 1 .. Len(c.skins) |-> StringifySkin(c.skins[i])]] >>
        ELSE <<>>)

\* JSON.stringify(champions)
JSONstringify(champions) ==
  [t |-> "array",
   elems |-> [i \in 1 .. Len(champions) |-> StringifyChampion(champions[i])]]

RECURSIVE ParseObject(_)
\* JSON.parse of one object text: a later member of the same key wins.
ParseObject(members) ==
  IF members = <<>>
    THEN <<>>
    ELSE LET m == members[Len(members)]
             v == IF "s" \in DOMAIN m THEN m.s
                  ELSE IF "b" \in DOMAIN m THEN m.b
                  ELSE [i \in 1 .. Len(m.a) |-> ParseObject(m.a[i])]
         IN  (m.k :> v) @@ ParseObject(SubSeq(members, 1, Len(members) - 1))

\* JSON.parse of a text that parses to an array.
JSONparse(text) == [i \in 1 .. Len(text.elems) |-> ParseObject(text.elems[i])]

\* ------------------------------------------------------------- persistence

\* A list built front to back while ids are handed out: the element and
\* the count after it, then the rest.
Cons(one, rest) == [list |-> <<one.v>> \o rest.list, n |-> rest.n]

\* A coerceSkin that writes id: uid() for every skin.
coerceSkinFreshId(s, n) ==
  [v |-> [id |-> uid(n + 1), name |-> s.name, checked |-> Checked(s)], n |-> n + 1]

\* (s) => ({ id: s.id || uid(), name: s.name, checked: !!s.checked }) with n
\* ids handed out before: the skin and the ids handed out after it.
coerceSkin(s, n) ==
  IF IdOr(s, <<>>) = <<>>
    THEN [v |-> [id |-> uid(n + 1), name |-> s.name, checked |-> Checked(s)],
          n |-> n + 1]
    ELSE [v |-> [id |-> s.id, name |-> s.name, checked |-> Checked(s)], n |-> n]

RECURSIVE coerceSkins(_, _)
coerceFrom(one, tail) == Cons(one, coerceSkins(tail, one.n))

\* skins.map(coerceSkin): the list of skins and the ids handed out.
coerceSkins(skins, n) ==
  IF skins = <<>>
    THEN [list |-> <<>>, n |-> n]
    ELSE coerceFrom(coerceSkin(Head(skins), n), Tail(skins))

\* A byName whose first entity of a name wins.
byNameGetFirst(parsed, name) ==
  LET hits == {i \in 1 .. Len(parsed) : parsed[i].name = name}
  IN  IF hits = {} THEN <<>>
      ELSE parsed[CHOOSE i \in hits : \A j \in hits : i <= j]

\* byName.get(name) after "for (const c of parsed) byName.set(c.name, c)":
\* the last entity of that name, or <<>> for none.
byNameGet(parsed, name) ==
  LET hits == {i \in 1 .. Len(parsed) : parsed[i].name = name}
  IN  IF hits = {} THEN <<>>
      ELSE parsed[CHOOSE i \in hits : \A j \in hits : j <= i]

FreshChampion(name) == [id |-> nameToId(name), name |-> name, skins |-> <<>>]

\* Array.isArray(existing.skins) ? existing.skins.map(coerceSkin) : []
shapedSkins(existing, n) ==
  IF HasSkinsArray(existing)
    THEN coerceSkins(existing.skins, n)
    ELSE [list |-> <<>>, n |-> n]

shaped(name, existing, skins) ==
  [v |-> [id |-> IdOr(existing, nameToId(name)),
          name |-> existing.name,
          skins |-> skins.list],
   n |-> skins.n]

\* The callback of CHAMPION_NAMES.map for one name, existing being
\* byName.get(name).
canonicalChampion(name, existing, n) ==
  IF existing # <<>>
    THEN shaped(name, existing, shapedSkins(existing, n))
    ELSE [v |-> FreshChampion(name), n |-> n]

RECURSIVE mergeCanonical(_, _, _)
canonicalFrom(one, parsed, k) == Cons(one, mergeCanonical(parsed, k + 1, one.n))

\* CHAMPION_NAMES.map(...) from the k-th name on.
mergeCanonical(parsed, k, n) ==
  IF k > Len(CHAMPION_NAMES)
    THEN [list |-> <<>>, n |-> n]
    ELSE canonicalFrom(
           canonicalChampion(CHAMPION_NAMES[k], byNameGet(parsed, CHAMPION_NAMES[k]), n),
           parsed, k)

\* A load that forgets the custom champions.
pushCustomNone(merged, parsed) == [champions |-> merged.list, n |-> merged.n]

\* "Keep any custom champions previously added": merged.push(c) for every
\* parsed c whose name is not canonical.
pushCustom(merged, parsed) ==
  [champions |-> merged.list \o SelectSeq(parsed, LAMBDA c : ~IsCanonical(c.name)),
   n |-> merged.n]

\* loadInitialChampions() with raw the stored text and n ids handed out
\* before; returns the store and the ids handed out.
loadInitialChampions(raw, n) ==
  IF raw.t = "array"
    THEN pushCustom(mergeCanonical(JSONparse(raw), 1, n), JSONparse(raw))
    ELSE \* no text, or JSON.parse or the iteration throws: start fresh
         [champions |-> [k \in 1 .. Len(CHAMPION_NAMES) |->
                           FreshChampion(CHAMPION_NAMES[k])],
          n |-> n]

\* What saveChampions(champions) writes to the storage key.
saveChampions(champions) == JSONstringify(champions)

\* ------------------------------------------------------------- Data Dragon

\* An optional value (string | null, Map | null, Map.get's result): <<>> for
\* none, <<v>> for v.
None == <<>>
Some(v) == <<v>>

\* m.set(key, value) on a Map kept as its entries in insertion order.
MapSet(m, key, value) ==
  IF \E i \in 1 .. Len(m) : m[i].k = key
    THEN [i \in 1 .. Len(m) |-> IF m[i].k = key THEN [k |-> key, v |-> value] ELSE m[i]]
    ELSE Append(m, [k |-> key, v |-> value])

\* m.get(key)
MapGet(m, key) ==
  IF \E i \in 1 .. Len(m) : m[i].k = key
    THEN Some(m[CHOOSE i \in 1 .. Len(m) : m[i].k = key].v)
    ELSE None

\* fetchDdragonLatestVersion() on the answer res of the versions endpoint.
fetchDdragonLatestVersion(res) ==
  IF res.kind = "ok" /\ Len(res.list) > 0 THEN Some(res.list[1]) ELSE None

\* fetchChampionIndex(version, locale) on the answer res.
fetchChampionIndex(res) ==
  IF res.kind = "ok" THEN Some(res.data) ELSE None

RECURSIVE buildKeyMap(_)
\* buildKeyMap(idx), idx.data as its entries [key, id, name] in order.
buildKeyMap(data) ==
  IF data = <<>>
    THEN <<>>
    ELSE LET e == data[Len(data)]
             m == buildKeyMap(SubSeq(data, 1, Len(data) - 1))
         IN  MapSet(MapSet(m, normalize(e.name), e.key), normalize(e.id), e.key)

\* fetchChampionSkins(version, locale, key) on the answer res: the names of
\* the skins with num > 0, trimmed; [] on any failure.
fetchChampionSkins(res) ==
  IF res.kind = "ok" /\ res.champ # None
    THEN LET skins == SelectSeq(res.champ[1], LAMBDA s : s.num > 0)
         IN  [i \in 1 .. Len(skins) |-> trim(skins[i].name)]
    ELSE <<>>

\* ------------------------------------------------------------- merge

\* existingByName.get(key) for new Map(skins.map((s) => [normalize(s.name), s])):
\* the last skin of that key.
existingByNameGet(skins, key) ==
  LET hits == {i \in 1 .. Len(skins) : normalize(skins[i].name) = key}
  IN  IF hits = {} THEN None
      ELSE Some(skins[CHOOSE i \in hits : \A j \in hits : j <= i])

\* The body of the loop over fetchedNames, existing being
\* existingByName.get(normalize(name)): the skin pushed.
pushFetched(existing, name, n) ==
  IF existing # None
    THEN [v |-> existing[1], n |-> n]
    ELSE [v |-> [id |-> uid(n + 1), name |-> name, checked |-> FALSE], n |-> n + 1]

RECURSIVE mergeFetched(_, _, _)
fetchedFrom(one, skins, tail) == Cons(one, mergeFetched(skins, tail, one.n))

\* The loop over fetchedNames: the skins pushed and the ids handed out.
mergeFetched(skins, fetchedNames, n) ==
  IF fetchedNames = <<>>
    THEN [list |-> <<>>, n |-> n]
    ELSE fetchedFrom(
           pushFetched(existingByNameGet(skins, normalize(Head(fetchedNames))),
                       Head(fetchedNames), n),
           skins, Tail(fetchedNames))

\* The loop "keep any custom skins": a skin is pushed when its key is not in
\* existingByName and not among the fetched names.
mergeCustom(skins, fetchedNames) ==
  SelectSeq(skins, LAMBDA s :
    /\ existingByNameGet(skins, normalize(s.name)) = None
    /\ ~\E i \in 1 .. Len(fetchedNames) :
          normalize(fetchedNames[i]) = normalize(s.name))

merged(c, first, custom) ==
  [v |-> [c EXCEPT !.skins = first.list \o custom], n |-> first.n]

\* mergeSkins(c, fetchedNames) with n ids handed out before; returns the
\* champion and the ids handed out.
mergeSkins(c, fetchedNames, n) ==
  merged(c, mergeFetched(c.skins, fetchedNames, n), mergeCustom(c.skins, fetchedNames))

\* ------------------------------------------------------------- inputs

VelKoz == CHAMPION_NAMES[1]
Vi == CHAMPION_NAMES[2]
\* A name outside the canonical list.
Custom == <<"X">>

\* What localStorage may hold at startup: nothing, a text that does not
\* parse, or an array of entities.  Every entity and skin carries a name and
\* every non-canonical entity a skins array (the component cannot render
\* others); ids, checked flags and a canonical entity's skins may be missing.
StoredArrays ==
  { \* out of order, ids and flags missing, "Vi" twice, "Vel'Koz" without
    \* skins and with an empty id, two custom entities of one name
    << [name |-> Custom, skins |-> << [name |-> <<"B">>] >>],
       [id |-> <<"old">>, name |-> Vi,
        skins |-> << [id |-> <<"s3">>, name |-> <<"B">>, checked |-> TRUE] >>],
       [id |-> <<>>, name |-> VelKoz],
       [name |-> Vi,
        skins |-> << [name |-> <<"A">>, checked |-> TRUE],
                     [id |-> <<"s4">>, name |-> <<"a">>] >>],
       [id |-> <<"c2">>, name |-> Custom, skins |-> <<>>] >>,
    \* a custom entity alone, complete
    << [id |-> <<"c1">>, name |-> Custom,
        skins |-> << [id |-> <<"s1">>, name |-> <<"A">>, checked |-> TRUE] >>] >> }

PersistedDocs ==
  {[t |-> "absent"], [t |-> "garbage"]}
    \cup {JSONstringify(d) : d \in StoredArrays}

\* What the user may pick in the import dialog: a text that does not parse,
\* a JSON object, or an array of entities (skins and ids may be missing).
ImportArrays ==
  { \* an id to synthesize, a flag to coerce, one name twice, an entity
    \* without skins and an entity the store does not hold
    << [name |-> Vi, skins |-> <<>>],
       [id |-> <<"zz">>, name |-> Vi,
        skins |-> << [id |-> <<"i1">>, name |-> <<"A">>, checked |-> TRUE],
                     [name |-> <<"B">>] >>],
       [name |-> VelKoz],
       [id |-> <<"n1">>, name |-> <<"N">>,
        skins |-> << [id |-> <<"i2">>, name |-> <<"A">>, checked |-> TRUE] >>] >> }

ImportDocs ==
  {[t |-> "garbage"], [t |-> "object"]}
    \cup {JSONstringify(d) : d \in ImportArrays}

\* Answers of the versions endpoint: no answer, an empty list, a list.
VersionResponses ==
  { [kind |-> "network"],
    [kind |-> "ok", list |-> <<>>],
    [kind |-> "ok", list |-> << <<"15", ".", "2">>, <<"15", ".", "1">> >>] }

\* Answers of the champion index: no answer, a non-success status, an index
\* of the two canonical champions.
IndexResponses ==
  { [kind |-> "network"],
    [kind |-> "status"],
    [kind |-> "ok",
     data |-> << [key |-> <<"V", "e", "l", "k", "o", "z">>,
                  id |-> <<"V", "e", "l", "k", "o", "z">>, name |-> VelKoz],
                 [key |-> <<"V", "i">>, id |-> <<"V", "i">>, name |-> Vi] >>] }

\* Answers of a champion's detail endpoint: no answer, a non-success
\* status, a body that is not JSON, a body without the champion, and bodies
\* with its skins (num 0 is the base skin).
SkinResponses ==
  { [kind |-> "network"],
    [kind |-> "status"],
    [kind |-> "malformed"],
    [kind |-> "ok", champ |-> None],
    [kind |-> "ok", champ |-> Some(<< [num |-> 0, name |-> <<"d">>] >>)],
    [kind |-> "ok", champ |-> Some(<< [num |-> 0, name |-> <<"d">>],
                                      [num |-> 1, name |-> <<"A">>],
                                      [num |-> 2, name |-> <<" ", "B">>] >>)],
    [kind |-> "ok", champ |-> Some(<< [num |-> 1, name |-> <<"A">>],
                                      [num |-> 2, name |-> <<"a">>] >>)] }

\* ------------------------------------------------------------- state

VARIABLES
  champions,   \* useState<Champion[]>: the store
  persisted,   \* the text under STORAGE_KEY
  uidCount,    \* ids uid() has handed out
  query,       \* useState(""): the search box
  showMode,    \* useState("all")
  ddVersion,   \* useState<string | null>
  ddKeyMap,    \* useState<Map | null>
  boot,        \* where the bootstrap effect stands: version, index, done
  prefilling,  \* useState(false)
  batchQueue,  \* prefillVisible's loop: the champions not yet done, the
               \* first being the one awaited
  inflight,    \* the fetchChampionSkins calls not yet answered
  gestures,    \* the user gestures so far
  stored0,     \* history: the non-canonical entities of the text that
               \* loadInitialChampions read, in the text's order
  last         \* history: the operation that led to this state

storeVars == <<champions, persisted, uidCount>>
uiVars == <<query, showMode>>
remoteVars == <<ddVersion, ddKeyMap, boot>>
prefillVars == <<prefilling, batchQueue, inflight>>

vars == <<champions, persisted, uidCount, query, showMode, ddVersion, ddKeyMap,
          boot, prefilling, batchQueue, inflight, gestures, stored0, last>>

\* ------------------------------------------------------------- store

Undefined == <<"undefined">>

\* c.id as a === operand.
PropId(o) == IF Has(o, "id") THEN o.id ELSE Undefined

\* { ...s, checked }
WithChecked(s, checked) == ("checked" :> checked) @@ s

\* prev.map((c) => (c.id === id ? updater(c) : c))
updateChampion(prev, id, updater(_)) ==
  [i \in 1 .. Len(prev) |->
     IF PropId(prev[i]) = id THEN updater(prev[i]) ELSE prev[i]]

toggleAllSkinsUpdater(c, checked) ==
  [c EXCEPT !.skins = [j \in 1 .. Len(c.skins) |-> WithChecked(c.skins[j], checked)]]

toggleSkinUpdater(c, skinId, checked) ==
  [c EXCEPT !.skins =
     [j \in 1 .. Len(c.skins) |->
        IF PropId(c.skins[j]) = skinId
          THEN WithChecked(c.skins[j], checked)
          ELSE c.skins[j]]]

addSkinUpdater(c, trimmed, n) ==
  [c EXCEPT !.skins =
     Append(c.skins, [id |-> uid(n + 1), name |-> trimmed, checked |-> FALSE])]

removeSkinUpdater(c, skinId) ==
  [c EXCEPT !.skins = SelectSeq(c.skins, LAMBDA s : PropId(s) # skinId)]

clearAllChecksUpdater(prev) ==
  [i \in 1 .. Len(prev) |->
     [prev[i] EXCEPT !.skins =
        [j \in 1 .. Len(prev[i].skins) |-> WithChecked(prev[i].skins[j], FALSE)]]]

\* { id: c.id, name: c.name, skins }
withSkins(c, skins) ==
  IF Has(c, "id")
    THEN [id |-> c.id, name |-> c.name, skins |-> skins]
    ELSE [name |-> c.name, skins |-> skins]

imported(c, taken) == [v |-> withSkins(c, taken.list), n |-> taken.n]

\* The callback of prev.map in importJson for one champion, incoming being
\* byName.get(c.name).
importChampion(c, incoming, n) ==
  IF incoming = <<>>
    THEN [v |-> c, n |-> n]
    ELSE imported(c, IF HasSkinsArray(incoming)
                       THEN coerceSkins(incoming.skins, n)
                       ELSE [list |-> c.skins, n |-> n])

RECURSIVE importUpdater(_, _, _)
importFrom(one, tail, data) == Cons(one, importUpdater(tail, data, one.n))

\* The updater of importJson over prev, data the parsed array, with n ids
\* handed out before; returns the store and the ids handed out.
importUpdater(prev, data, n) ==
  IF prev = <<>>
    THEN [list |-> <<>>, n |-> n]
    ELSE importFrom(importChampion(Head(prev), byNameGet(data, Head(prev).name), n),
                    Tail(prev), data)

\* (c) => (c.id === id ? mergeSkins(c, names) : c)
mergeChampion(c, id, names, n) ==
  IF PropId(c) = id THEN mergeSkins(c, names, n) ELSE [v |-> c, n |-> n]

RECURSIVE mergeUpdater(_, _, _, _)
mergeFrom(one, tail, id, names) == Cons(one, mergeUpdater(tail, id, names, one.n))

\* updateChampion(id, (curr) => mergeSkins(curr, names)) over prev, with n
\* ids handed out before; returns the store and the ids handed out.
mergeUpdater(prev, id, names, n) ==
  IF prev = <<>>
    THEN [list |-> <<>>, n |-> n]
    ELSE mergeFrom(mergeChampion(Head(prev), id, names, n), Tail(prev), id, names)

hasChecked(c) == \E j \in 1 .. Len(c.skins) : Checked(c.skins[j])

\* The useMemo of filtered.
filtered(champs, q, mode) ==
  LET normQuery == normalize(q)
  IN  SelectSeq(champs, LAMBDA c :
        /\ normQuery # <<>> => includes(normalize(c.name), normQuery)
        /\ mode = "with" => hasChecked(c)
        /\ mode = "without" => ~hasChecked(c))

\* A save effect that does not run: the stored text stays.
saveEffectNever(next, stored) == stored

\* The effect on [champions]: every new store is written out.
saveEffect(next, stored) == saveChampions(next)

\* setChampions(next), then the render and its save effect.
Commit(next) ==
  /\ champions' = next
  /\ persisted' = saveEffect(next, persisted)

\* ------------------------------------------------------------- startup

\* The entities of a stored text whose name is not in the canonical list.
nonCanonical(raw) ==
  IF raw.t = "array"
    THEN LET all == [i \in 1 .. Len(raw.elems) |-> ParseObject(raw.elems[i])]
         IN  SelectSeq(all, LAMBDA c : \A k \in 1 .. Len(CHAMPION_NAMES) :
                                         c.name # CHAMPION_NAMES[k])
    ELSE <<>>

Loaded(raw, loaded) ==
  /\ loaded.n <= MaxUid
  /\ champions = loaded.champions
  /\ persisted = saveEffect(loaded.champions, raw)
  /\ uidCount = loaded.n
  /\ query = <<>>
  /\ showMode = "all"
  /\ ddVersion = None
  /\ ddKeyMap = None
  /\ boot = "version"
  /\ prefilling = FALSE
  /\ batchQueue = <<>>
  /\ inflight = <<>>
  /\ gestures = 0
  /\ stored0 = nonCanonical(raw)
  /\ last = [op |-> "load"]

\* The component after its first render and effects.
Init == \E raw \in PersistedDocs : Loaded(raw, loadInitialChampions(raw, 0))

\* One more user gesture.
Gesture == gestures < MaxGestures /\ gestures' = gestures + 1

\* The bootstrap effect: after its first await, and after its second.
SetVersion(v) ==
  IF v = None
    THEN boot' = "done" /\ UNCHANGED ddVersion
    ELSE boot' = "index" /\ ddVersion' = v

bootVersion(res) ==
  /\ boot = "version"
  /\ SetVersion(fetchDdragonLatestVersion(res))
  /\ last' = [op |-> "other"]
  /\ UNCHANGED <<storeVars, uiVars, ddKeyMap, prefillVars, gestures, stored0>>

SetKeyMap(idx) ==
  IF idx = None
    THEN UNCHANGED ddKeyMap
    ELSE ddKeyMap' = Some(buildKeyMap(idx[1]))

bootIndex(res) ==
  /\ boot = "index"
  /\ SetKeyMap(fetchChampionIndex(res))
  /\ boot' = "done"
  /\ last' = [op |-> "other"]
  /\ UNCHANGED <<storeVars, uiVars, ddVersion, prefillVars, gestures, stored0>>

\* ------------------------------------------------------------- user actions

Queries == {<<>>, <<"V", "i">>}
ShowModes == {"all", "with", "without"}

setQuery(q) ==
  /\ Gesture
  /\ query' = q
  /\ last' = [op |-> "other"]
  /\ UNCHANGED <<storeVars, showMode, remoteVars, prefillVars, stored0>>

setShowMode(m) ==
  /\ Gesture
  /\ showMode' = m
  /\ last' = [op |-> "other"]
  /\ UNCHANGED <<storeVars, query, remoteVars, prefillVars, stored0>>

\* The rows on screen: a row's handlers are bound to its champion.
Visible == filtered(champions, query, showMode)

toggleAllSkins(c, checked) ==
  /\ Gesture
  /\ c.skins # <<>>  \* the master checkbox is disabled on an empty row
  /\ Commit(updateChampion(champions, PropId(c),
       LAMBDA x : toggleAllSkinsUpdater(x, checked)))
  /\ last' = [op |-> "other"]
  /\ UNCHANGED <<uidCount, uiVars, remoteVars, prefillVars, stored0>>

toggleSkin(c, skinId, checked) ==
  /\ Gesture
  /\ Commit(updateChampion(champions, PropId(c),
       LAMBDA x : toggleSkinUpdater(x, skinId, checked)))
  /\ last' = [op |-> "other"]
  /\ UNCHANGED <<uidCount, uiVars, remoteVars, prefillVars, stored0>>

\* What the user may type into a row's "add" box.
TypedNames == {<<" ">>, <<" ", "a", " ">>}

Added(c, trimmed) ==
  IF trimmed = <<>>
    THEN UNCHANGED storeVars
    ELSE /\ uidCount < MaxUid
         /\ Commit(updateChampion(champions, PropId(c),
              LAMBDA x : addSkinUpdater(x, trimmed, uidCount)))
         /\ uidCount' = uidCount + 1

addSkin(c, name) ==
  /\ Gesture
  /\ Added(c, trim(name))
  /\ last' = [op |-> "other"]
  /\ UNCHANGED <<uiVars, remoteVars, prefillVars, stored0>>

removeSkin(c, skinId) ==
  /\ Gesture
  /\ Commit(updateChampion(champions, PropId(c),
       LAMBDA x : removeSkinUpdater(x, skinId)))
  /\ last' = [op |-> "other"]
  /\ UNCHANGED <<uidCount, uiVars, remoteVars, prefillVars, stored0>>

clearAllChecks ==
  /\ Gesture
  /\ Commit(clearAllChecksUpdater(champions))
  /\ last' = [op |-> "other"]
  /\ UNCHANGED <<uidCount, uiVars, remoteVars, prefillVars, stored0>>

\* setChampions with an updater that hands out ids.
CommitWithIds(next) ==
  /\ next.n <= MaxUid
  /\ Commit(next.list)
  /\ uidCount' = next.n

\* An importJson whose catch block shows nothing.
importJsonSilent(text) ==
  /\ Gesture
  /\ IF text.t # "array"
       THEN /\ last' = [op |-> "import", alerts |-> 0]
            /\ UNCHANGED storeVars
       ELSE /\ CommitWithIds(importUpdater(champions, JSONparse(text), uidCount))
            /\ last' = [op |-> "import", alerts |-> 0]
  /\ UNCHANGED <<uiVars, remoteVars, prefillVars, stored0>>

\* importJson(file) from the answer of file.text() on: text is the file's
\* content.  alerts counts the alert() calls of this run.
importJson(text) ==
  /\ Gesture
  /\ IF text.t # "array"
       THEN \* JSON.parse throws, or "Fichier invalide" is thrown
            /\ last' = [op |-> "import", alerts |-> 1]
            /\ UNCHANGED storeVars
       ELSE /\ CommitWithIds(importUpdater(champions, JSONparse(text), uidCount))
            /\ last' = [op |-> "import", alerts |-> 0]
  /\ UNCHANGED <<uiVars, remoteVars, prefillVars, stored0>>

\* ------------------------------------------------------------- prefill

\* !ddVersion || !ddKeyMap is false.
ddragonReady == ddVersion # None /\ ddKeyMap # None

\* ddKeyMap.get(normalize(c.name))
KeyOf(name) == MapGet(ddKeyMap[1], normalize(name))

Singles == SelectSeq(inflight, LAMBDA f : f.origin = "single")
Batches == SelectSeq(inflight, LAMBDA f : f.origin = "batch")

\* A champion as the closures of a render hold it.
Ref(c) == [id |-> PropId(c), name |-> c.name]

Issue(c, key) ==
  IF key = None
    THEN UNCHANGED inflight  \* not in Data Dragon
    ELSE /\ Len(Singles) < MaxSingle
         /\ inflight' = Append(inflight,
              [cid |-> PropId(c), key |-> key[1], origin |-> "single"])

\* prefillChampion(c) of a row's button, up to its await.
prefillChampion(c) ==
  /\ Gesture
  /\ ddragonReady  \* the button is disabled otherwise, and the guard returns
  /\ Issue(c, KeyOf(c.name))
  /\ last' = [op |-> "other"]
  /\ UNCHANGED <<storeVars, uiVars, remoteVars, prefilling, batchQueue, stored0>>

RECURSIVE skipKeyless(_)
\* The loop of prefillVisible over queue until a prefillChampion call
\* awaits its fetch: a champion without a key returns at once.
skipKeyless(queue) ==
  IF queue # <<>> /\ KeyOf(Head(queue).name) = None
    THEN skipKeyless(Tail(queue))
    ELSE queue

\* A loop that does not await: the fetches of all its champions at once.
batchFetchesAll(queue) ==
  LET keyed == SelectSeq(queue, LAMBDA c : KeyOf(c.name) # None)
  IN  [i \in 1 .. Len(keyed) |->
         [cid |-> keyed[i].id, key |-> KeyOf(keyed[i].name)[1], origin |-> "batch"]]

\* The fetches the loop has in flight when it next awaits, queue being what
\* is left to process: the one of its first champion.
batchFetches(queue) ==
  IF queue = <<>>
    THEN <<>>
    ELSE << [cid |-> Head(queue).id, key |-> KeyOf(Head(queue).name)[1],
             origin |-> "batch"] >>

\* The loop runs on over queue, pending being the other fetches in flight:
\* to its next await, or to its end and the finally.
BatchRun(queue, pending) ==
  /\ batchQueue' = queue
  /\ prefilling' = (queue # <<>>)
  /\ inflight' = pending \o batchFetches(queue)

\* prefillVisible() up to its first await (or its end).
prefillVisible ==
  /\ Gesture
  /\ ddragonReady /\ ~prefilling  \* the button is disabled otherwise
  /\ BatchRun(skipKeyless([i \in 1 .. Len(Visible) |-> Ref(Visible[i])]), inflight)
  /\ last' = [op |-> "other"]
  /\ UNCHANGED <<storeVars, uiVars, remoteVars, stored0>>

Without(s, k) == [i \in 1 .. Len(s) - 1 |-> IF i < k THEN s[i] ELSE s[i + 1]]

\* A prefillChampion without "if (!names.length) return".
ResumeAlways(f, names, pending) ==
  /\ CommitWithIds(mergeUpdater(champions, f.cid, names, uidCount))
  /\ IF f.origin = "batch"
       THEN BatchRun(skipKeyless(Tail(batchQueue)), pending)
       ELSE /\ inflight' = pending
            /\ UNCHANGED <<prefilling, batchQueue>>
  /\ last' = [op |-> "resolve", origin |-> f.origin, merged |-> (names # <<>>)]

\* prefillChampion from its await on, names being what fetchChampionSkins
\* returned for the fetch f, and, for a fetch of the batch, the loop up to
\* its next await.
Resume(f, names, pending) ==
  /\ IF names = <<>>
       THEN UNCHANGED storeVars
       ELSE CommitWithIds(mergeUpdater(champions, f.cid, names, uidCount))
  /\ IF f.origin = "batch"
       THEN BatchRun(skipKeyless(Tail(batchQueue)), pending)
       ELSE /\ inflight' = pending
            /\ UNCHANGED <<prefilling, batchQueue>>
  /\ last' = [op |-> "resolve", origin |-> f.origin, merged |-> (names # <<>>)]

\* The k-th fetch in flight is answered by res.
fetchResolve(k, res) ==
  /\ UNCHANGED <<uiVars, remoteVars, gestures, stored0>>
  /\ Resume(inflight[k], fetchChampionSkins(res), Without(inflight, k))

RowAction(c) ==
  \/ \E checked \in BOOLEAN : toggleAllSkins(c, checked)
  \/ \E j \in 1 .. Len(c.skins), checked \in BOOLEAN :
       toggleSkin(c, PropId(c.skins[j]), checked)
  \/ \E name \in TypedNames : addSkin(c, name)
  \/ \E j \in 1 .. Len(c.skins) : removeSkin(c, PropId(c.skins[j]))
  \/ prefillChampion(c)

Next ==
  \/ \E res \in VersionResponses : bootVersion(res)
  \/ \E res \in IndexResponses : bootIndex(res)
  \/ \E q \in Queries : setQuery(q)
  \/ \E m \in ShowModes : setShowMode(m)
  \/ \E i \in 1 .. Len(Visible) : RowAction(Visible[i])
  \/ clearAllChecks
  \/ \E text \in ImportDocs : importJson(text)
  \/ prefillVisible
  \/ \E k \in 1 .. Len(inflight), res \in SkinResponses : fetchResolve(k, res)

Spec == Init /\ [][Next]_vars

\* ------------------------------------------------------------- mergeSkins alone

\* The longest list of existing skins and of fetched names.
MaxMergeLen == 2

SeqsUpTo(S, n) == UNION {[1 .. k -> S] : k \in 0 .. n}

\* Existing skins: names that fold to one key ("A", "a") and a name no
\* fetched list holds ("X"), owned or not, each skin with an id of its own.
ExistingLists ==
  { [i \in 1 .. Len(l) |->
       [id |-> <<"m", UidTokens[i]>>, name |-> l[i].name, checked |-> l[i].checked]] :
    l \in SeqsUpTo([name : {<<"A">>, <<"a">>, <<"X">>}, checked : BOOLEAN], MaxMergeLen) }

\* Fetched names: mergeSkins is called with one name at least.
FetchedLists == SeqsUpTo({<<"A">>, <<"a">>, <<"B">>}, MaxMergeLen) \ {<<>>}

\* A store of one champion with the skins drawn.
MergeInit ==
  \E existing \in ExistingLists :
    /\ champions = << [id |-> <<"c">>, name |-> Custom, skins |-> existing] >>
    /\ persisted = saveChampions(champions)
    /\ uidCount = 0
    /\ query = <<>>
    /\ showMode = "all"
    /\ ddVersion = None
    /\ ddKeyMap = None
    /\ boot = "done"
    /\ prefilling = FALSE
    /\ batchQueue = <<>>
    /\ inflight = <<>>
    /\ gestures = 0
    /\ stored0 = <<>>
    /\ last = [op |-> "load"]

MergeResult(r) ==
  /\ r.n <= MaxUid
  /\ Commit(<<r.v>>)
  /\ uidCount' = r.n

\* mergeSkins(champions[0], fetched); last keeps its two arguments.
Merge(fetched) ==
  /\ MergeResult(mergeSkins(champions[1], fetched, uidCount))
  /\ last' = [op |-> "merge", existing |-> champions[1].skins, fetched |-> fetched]
  /\ UNCHANGED <<uiVars, remoteVars, prefillVars, gestures, stored0>>

MergeNext == \E fetched \in FetchedLists : Merge(fetched)

MergeSpec == MergeInit /\ [][MergeNext]_vars

\* ------------------------------------------------------------- properties

\* Some fetched name has the key of s.
InFetched(s, fetched) ==
  \E i \in 1 .. Len(fetched) : normalize(fetched[i]) = normalize(s.name)

\* C1: after mergeSkins(existing, fetched), the existing skins whose key no
\* fetched name has are the end of the result, unchanged and in their order.
C1_CustomSkinsKept ==
  last.op = "merge" =>
    LET custom == SelectSeq(last.existing, LAMBDA s : ~InFetched(s, last.fetched))
        result == champions[1].skins
    IN  /\ Len(custom) <= Len(result)
        /\ SubSeq(result, Len(result) - Len(custom) + 1, Len(result)) = custom

\* C2: after mergeSkins(existing, fetched), every owned existing skin whose
\* key some fetched name has is in the result with its id, still owned.
C2_OwnedSkinsKept ==
  last.op = "merge" =>
    \A i \in 1 .. Len(last.existing) :
      (last.existing[i].checked /\ InFetched(last.existing[i], last.fetched)) =>
        \E j \in 1 .. Len(champions[1].skins) :
          /\ champions[1].skins[j].id = last.existing[i].id
          /\ champions[1].skins[j].checked

\* C3: merging the result of mergeSkins(existing, fetched) with the same
\* fetched list again gives the same skins (ids, names, owned flags).
C3_MergeIdempotent ==
  last.op = "merge" =>
    mergeSkins(champions[1], last.fetched, uidCount).v.skins = champions[1].skins

\* C4: in every reachable state no two skins of a champion share an id.
C4_SkinIdsUnique ==
  \A i \in 1 .. Len(champions) :
    \A j, k \in 1 .. Len(champions[i].skins) :
      j # k => PropId(champions[i].skins[j]) # PropId(champions[i].skins[k])

Names(cs) == [i \in 1 .. Len(cs) |-> cs[i].name]

\* C5: in every reachable state the names of the store are the canonical
\* list followed by the names of the stored non-canonical entities in the
\* stored order, these entities keep their ids, and the load puts them into
\* the store as they were stored.
C5_Roster ==
  /\ Names(champions) = CHAMPION_NAMES \o Names(stored0)
  /\ \A i \in 1 .. Len(stored0) :
       PropId(champions[Len(CHAMPION_NAMES) + i]) = PropId(stored0[i])
  /\ last.op = "load" =>
       SubSeq(champions, Len(CHAMPION_NAMES) + 1, Len(champions)) = stored0

\* A merge was applied to a store that holds stored non-canonical entities.
C5_Witness ==
  /\ Len(stored0) = 2
  /\ last.op = "resolve" /\ last.merged

\* C6: between operations the stored text is the serialization of the
\* store, and loading it gives the store back.
C6_PersistedFollowsStore ==
  /\ persisted = saveChampions(champions)
  /\ loadInitialChampions(persisted, uidCount).champions = champions

\* An import has replaced skins and the text holds them.
C6_Witness ==
  /\ last.op = "import" /\ last.alerts = 0
  /\ \E i \in 1 .. Len(champions) : champions[i].skins # <<>>
  /\ persisted = JSONstringify(champions)

\* The store invariants: the canonical names in their order, then entities
\* of other names; every entity and every skin with a non-empty id.
StoreInvariants(cs) ==
  /\ Len(cs) >= Len(CHAMPION_NAMES)
  /\ SubSeq(Names(cs), 1, Len(CHAMPION_NAMES)) = CHAMPION_NAMES
  /\ \A i \in Len(CHAMPION_NAMES) + 1 .. Len(cs) : ~IsCanonical(cs[i].name)
  /\ \A i \in 1 .. Len(cs) :
       /\ IdOr(cs[i], <<>>) # <<>>
       /\ \A j \in 1 .. Len(cs[i].skins) : IdOr(cs[i].skins[j], <<>>) # <<>>

\* C7: for a store that satisfies the store invariants, loadInitialChampions
\* of the text saveChampions writes returns the store, and no id is made.
C7_RoundTrip ==
  StoreInvariants(champions) =>
    loadInitialChampions(saveChampions(champions), uidCount)
      = [champions |-> champions, n |-> uidCount]

\* A store with a trailing custom entity, an owned and a not owned skin.
C7_Witness ==
  /\ StoreInvariants(champions)
  /\ Len(champions) > Len(CHAMPION_NAMES)
  /\ \E i \in 1 .. Len(champions) : \E j, k \in 1 .. Len(champions[i].skins) :
       champions[i].skins[j].checked /\ ~champions[i].skins[k].checked

IsSuffix(s, t) == Len(s) <= Len(t) /\ SubSeq(t, Len(t) - Len(s) + 1, Len(t)) = s

\* The batch has at most one fetch in flight, the one of the first champion
\* left, and none when it does not run.
BatchOneFetch ==
  IF prefilling
    THEN /\ batchQueue # <<>>
         /\ Len(Batches) = 1
         /\ Batches[1].cid = Head(batchQueue).id
    ELSE batchQueue = <<>> /\ Batches = <<>>

\* A step of the batch: it starts on the rows on screen, in their order; it
\* moves on only in the step that answers its fetch, and then to champions
\* further down the list.
BatchInOrder ==
  /\ (~prefilling /\ prefilling') =>
       IsSuffix(batchQueue', [i \in 1 .. Len(Visible) |-> Ref(Visible[i])])
  /\ (prefilling /\ batchQueue' # batchQueue) =>
       /\ last'.op = "resolve" /\ last'.origin = "batch"
       /\ IsSuffix(batchQueue', Tail(batchQueue))

\* C8, for the fetches of the batch: they are in flight one at a time, each
\* issued in the step that answers the one before and applies its merge, in
\* the order of the rows on screen.
C8_BatchOneAtATime == []BatchOneFetch /\ [][BatchInOrder]_vars

\* The batch has moved on from one champion to the next.
C8_Witness ==
  /\ prefilling
  /\ last.op = "resolve" /\ last.origin = "batch"

\* C8, for all fetches: while a batch prefill runs, at most one fetch of
\* skin names is in flight, whoever started it.
C8_OneFetchInFlight == prefilling => Len(inflight) <= 1

\* The batch goes on after the fetch f: to a champion further down, whose
\* fetch is then in flight, or to its end.
BatchGoesOn(f) ==
  f.origin = "batch" =>
    /\ IsSuffix(batchQueue', Tail(batchQueue))
    /\ prefilling' = (batchQueue' # <<>>)
    /\ batchQueue' # <<>> =>
         \E i \in 1 .. Len(inflight') :
           inflight'[i].origin = "batch" /\ inflight'[i].cid = Head(batchQueue').id

\* The answers for which fetchChampionSkins returns []: every failure, and
\* a champion with no skin but the base one.
FailedResponses == {res \in SkinResponses : fetchChampionSkins(res) = <<>>}

\* C9: no fetch starts while the version or the key map is missing; a
\* prefill of a champion without a key, and the answer of a fetch that
\* failed (no answer, a bad status, a malformed body) or that names no skin,
\* leave the store and the stored text as they are; a batch then goes on.
C9_FailureKeepsStore ==
  [][ /\ ~ddragonReady => inflight' = <<>>
      /\ \A i \in 1 .. Len(champions) :
           (prefillChampion(champions[i]) /\ KeyOf(champions[i].name) = None) =>
             UNCHANGED <<storeVars, prefillVars>>
      /\ \A k \in 1 .. Len(inflight), res \in FailedResponses :
           fetchResolve(k, res) =>
             UNCHANGED storeVars /\ BatchGoesOn(inflight[k])
    ]_vars

\* A fetch of the batch failed on a store that holds skins, and the batch
\* went on to the next champion.
C9_Witness ==
  /\ last.op = "resolve" /\ ~last.merged /\ last.origin = "batch"
  /\ prefilling
  /\ \E i \in 1 .. Len(champions) : champions[i].skins # <<>>

\* The last entity of data named name is the i-th.
LastNamed(data, i, name) ==
  /\ data[i].name = name
  /\ \A j \in i + 1 .. Len(data) : data[j].name # name

\* The skin s of the store is the incoming skin t, its id kept or, where
\* missing, one not handed out before.
TakenFrom(s, t) ==
  /\ s.name = t.name
  /\ s.checked = Checked(t)
  /\ IF IdOr(t, <<>>) # <<>>
       THEN s.id = t.id
       ELSE \E m \in uidCount + 1 .. uidCount' : s.id = uid(m)

\* What an import of the array data may change.
ImportFrame(data) ==
  /\ Len(champions') = Len(champions)
  /\ \A i \in 1 .. Len(champions) :
       /\ PropId(champions'[i]) = PropId(champions[i])
       /\ champions'[i].name = champions[i].name
       /\ (\A d \in 1 .. Len(data) : data[d].name # champions[i].name) =>
            champions'[i] = champions[i]
       /\ \A d \in 1 .. Len(data) :
            LastNamed(data, d, champions[i].name) =>
              IF HasSkinsArray(data[d])
                THEN /\ Len(champions'[i].skins) = Len(data[d].skins)
                     /\ \A j \in 1 .. Len(data[d].skins) :
                          TakenFrom(champions'[i].skins[j], data[d].skins[j])
                ELSE champions'[i].skins = champions[i].skins

\* C10: an import of an array changes no entity's id, name or position and
\* not the number of entities; an entity whose name no incoming entity has
\* is untouched; an entity with an incoming entity of its name takes that
\* entity's skins (of the last such entity, if it has a skins array) with
\* the incoming ids kept and the missing ones made.
C10_ImportFrame ==
  [][ \A text \in ImportDocs :
        (text.t = "array" /\ importJson(text)) => ImportFrame(JSONparse(text))
    ]_vars

\* An import gave "Vi" the incoming skins, one id kept and one made, and
\* left the custom entities as they were.
C10_Witness ==
  /\ last.op = "import" /\ last.alerts = 0
  /\ Len(champions) = Len(CHAMPION_NAMES) + 2
  /\ Len(champions[2].skins) = 2
  /\ champions[2].skins[1].id = <<"i1">>
  /\ champions[2].skins[2].id \in {uid(m) : m \in 1 .. uidCount}

\* C11: an import of a text that does not parse, or that parses to
\* something that is not an array, shows one message and leaves the store,
\* the ids handed out and the stored text as they were.
C11_InvalidImportRejected ==
  [][ \A text \in ImportDocs :
        (text.t # "array" /\ importJson(text)) =>
          /\ last'.op = "import" /\ last'.alerts = 1
          /\ UNCHANGED storeVars
    ]_vars

\* An invalid import was rejected on a store that holds an owned skin.
C11_Witness ==
  /\ last.op = "import" /\ last.alerts = 1
  /\ \E i \in 1 .. Len(champions) : hasChecked(champions[i])
  /\ persisted = saveChampions(champions)

\* ------------------------------------------------------------- normalize alone

\* The longest string normalize is applied to.
MaxStrLen == 3

\* Letters in both cases, accented letters, combining marks (one with the
\* Diacritic property, two without), the punctuation of the last replace
\* and white space.
Alphabet ==
  {"A", "a", "Eacute", "eacute", "COMBACUTE", "COMBLETTERA", "COMBASTBELOW",
   "'", "BACKTICK", ".", "-", " ", "NBSP"}

\* The search box holds the string drawn.
NormalizeInit ==
  \E s \in SeqsUpTo(Alphabet, MaxStrLen) :
    /\ query = s
    /\ champions = <<>>
    /\ persisted = [t |-> "absent"]
    /\ uidCount = 0
    /\ showMode = "all"
    /\ ddVersion = None
    /\ ddKeyMap = None
    /\ boot = "done"
    /\ prefilling = FALSE
    /\ batchQueue = <<>>
    /\ inflight = <<>>
    /\ gestures = 0
    /\ stored0 = <<>>
    /\ last = [op |-> "load"]

\* normalize(query); last keeps its argument.
Normalize ==
  /\ query' = normalize(query)
  /\ last' = [op |-> "normalize", input |-> query]
  /\ UNCHANGED <<storeVars, showMode, remoteVars, prefillVars, gestures, stored0>>

NormalizeSpec == NormalizeInit /\ [][Normalize]_vars

\* C12: the result of normalize is a string that normalize leaves as it is.
C12_NormalizeIdempotent ==
  last.op = "normalize" => normalize(query) = query

\* ------------------------------------------------------------- a fetch in flight

\* The skins "Vi" may hold when its fetch is issued: none of them owned.
UnownedLists == {e \in ExistingLists : \A i \in 1 .. Len(e) : ~e[i].checked}

\* The version and the key map after a bootstrap that succeeded.
ReadyVersion ==
  CHOOSE v \in {fetchDdragonLatestVersion(res) : res \in VersionResponses} : v # None
ReadyIndex ==
  CHOOSE idx \in {fetchChampionIndex(res) : res \in IndexResponses} : idx # None
ReadyKeyMap == Some(buildKeyMap(ReadyIndex[1]))

\* Data Dragon is ready, nothing is owned, and the fetch that the prefill
\* button of the row "Vi" issued is in flight.
RaceInit ==
  \E existing \in UnownedLists :
    /\ champions =
         << [id |-> nameToId(VelKoz), name |-> VelKoz,
             skins |-> << [id |-> <<"k1">>, name |-> <<"A">>, checked |-> FALSE] >>],
            [id |-> nameToId(Vi), name |-> Vi, skins |-> existing] >>
    /\ persisted = saveChampions(champions)
    /\ uidCount = 0
    /\ query = <<>>
    /\ showMode = "all"
    /\ ddVersion = ReadyVersion
    /\ ddKeyMap = ReadyKeyMap
    /\ boot = "done"
    /\ prefilling = FALSE
    /\ batchQueue = <<>>
    /\ inflight = << [cid |-> nameToId(Vi),
                      key |-> MapGet(ReadyKeyMap[1], normalize(Vi))[1],
                      origin |-> "single"] >>
    /\ gestures = 0
    /\ stored0 = <<>>
    /\ last = [op |-> "other"]

\* What the user does to the rows while the fetch is in flight, and the
\* answer of the fetch.
RaceNext ==
  \/ \E i \in 1 .. Len(Visible), checked \in BOOLEAN :
       toggleAllSkins(Visible[i], checked)
  \/ \E i \in 1 .. Len(Visible) :
       \E j \in 1 .. Len(Visible[i].skins), checked \in BOOLEAN :
         toggleSkin(Visible[i], PropId(Visible[i].skins[j]), checked)
  \/ \E i \in 1 .. Len(Visible), name \in TypedNames : addSkin(Visible[i], name)
  \/ \E i \in 1 .. Len(Visible) :
       \E j \in 1 .. Len(Visible[i].skins) :
         removeSkin(Visible[i], PropId(Visible[i].skins[j]))
  \/ \E k \in 1 .. Len(inflight), res \in SkinResponses : fetchResolve(k, res)

RaceSpec == RaceInit /\ [][RaceNext]_vars

\* The skin s, owned, is among skins with its id, still owned.
StillOwned(s, skins) ==
  \E m \in 1 .. Len(skins) : PropId(skins[m]) = PropId(s) /\ Checked(skins[m])

\* The answer of the fetch f with names leaves every other entity as it is
\* and keeps owned every skin of its entity, among those in some set of
\* positions, that is owned now and whose key a fetched name has.
KeepsOwned(f, names, Among(_, _)) ==
  \A i \in 1 .. Len(champions) :
    IF PropId(champions[i]) # f.cid
      THEN champions'[i] = champions[i]
      ELSE \A j \in 1 .. Len(champions[i].skins) :
             (/\ Among(champions[i].skins, j)
              /\ Checked(champions[i].skins[j])
              /\ InFetched(champions[i].skins[j], names)) =>
               StillOwned(champions[i].skins[j], champions'[i].skins)

AnySkin(skins, j) == TRUE

\* No later skin of the list has the key of the j-th.
LastOfKey(skins, j) ==
  \A m \in j + 1 .. Len(skins) : normalize(skins[m].name) # normalize(skins[j].name)

\* C13: when a fetch issued while nothing was owned is answered, the merge
\* leaves the other entities as the user has them by then, and every skin
\* of the entity that the user has set owned meanwhile and whose key a
\* fetched name has is still owned afterwards.
C13_UserChangeKept ==
  [][ \A k \in 1 .. Len(inflight), res \in SkinResponses :
        fetchResolve(k, res) =>
          KeepsOwned(inflight[k], fetchChampionSkins(res), AnySkin)
    ]_vars

\* The same for the skins whose key no later skin of the entity has: the
\* merge works on the skins as they are when the fetch is answered.
C13_LastOfKeyKept ==
  [][ \A k \in 1 .. Len(inflight), res \in SkinResponses :
        fetchResolve(k, res) =>
          KeepsOwned(inflight[k], fetchChampionSkins(res), LastOfKey)
    ]_vars

=============================================================================
